---- MODULE Spec2Model ----
(***************************************************************************)
(* French news discussion service: the conversation graph behind POST      *)
(* /chat, the news ingestion pipeline (fetch, translate, embed, store) and *)
(* the retry wrapper of the background tasks.                              *)
(*                                                                         *)
(* Three specifications share the variables:                               *)
(*   SpecChat    chat() calls against a news store that ingestion filled   *)
(*   SpecIngest  ingestion runs, one after the other                       *)
(*   SpecTasks   the four retried background tasks                         *)
(* Spec is their composition.                                              *)
(***************************************************************************)
EXTENDS Integers, Sequences, FiniteSets, TLC

VARIABLES
    conversations,   \* db_client.conversations_collection, in insertion order
    news,            \* db_client.news_collection, in insertion order
    now,             \* the wall clock read by datetime.now()
    chats,           \* number of chat() calls made so far
    pc,              \* position of the chat() call in flight
    req,             \* arguments of the chat() call in flight
    state,           \* the dict handed through the conversation graph
    context,         \* the "[Source i]" entries generate_response_node put in the prompt
    nodes,           \* nodes of the graph executed by the call in flight, in order
    docsBefore,      \* conversations_collection as it was when the call started
    result,          \* the dict FrenchNewsConversationAgent.chat returned
    response,        \* the ChatResponse the /chat endpoint built from it
    error,           \* the exception the call raised, "" when none
    history,         \* the answer of the last GET /conversation/{id} since that call
    runs,            \* ingestion runs: locals of _process_news_async / process_daily_news
    runsStarted,     \* number of ingestion runs started so far
    tasks,           \* Celery requests of the four retried tasks
    recent,          \* the answer of the last GET /news
    cleaned,         \* what the last cleanup_old_articles task returned
    found            \* what the two similarity searches returned for the last query

vars == <<conversations, news, now, chats, pc, req, state, context, nodes,
          docsBefore, result, response, error, history, runs, runsStarted, tasks,
          recent, cleaned, found>>

chatVars == <<conversations, now, chats, pc, req, state, context, nodes,
              docsBefore, result, response, error, history>>

ingestVars == <<news, runs, runsStarted>>

readVars == <<recent, cleaned, found>>

(***************************************************************************)
(* Bounds of the model.                                                    *)
(***************************************************************************)
MaxChats == 2
MaxStore == 3
MaxFeed == 2
MaxRuns == 2
MaxLimit == 2
MaxDaysOld == 2

\* Each chat() call adds at most a conversation and two messages.
MaxDocs == 3 * MaxChats

\* uuid4 ids of the conversations collection: the k-th document added gets id k.
DocIds == 1..MaxDocs

UserTexts == {"bonjour", "quelles nouvelles"}
Replies == {"reponse"}

\* The RSS feed: its items, each named by its link; an item is published on
\* the day of that number.
Rss == [i \in 1..MaxFeed |-> i]

\* Where an ingestion run is started from: the beat schedule, POST
\* /celery/trigger-news-fetch, POST /process-news.
RunIds == {"beat", "manual", "process-news"}

(***************************************************************************)
(* Text values.  A text is the original, a translation of one, or the      *)
(* placeholder the translator returns when the completion call fails.      *)
(***************************************************************************)
Title(url) == [lang |-> "en", part |-> "title", of |-> url]

Content(url) == [lang |-> "en", part |-> "content", of |-> url]

FrenchOf(text) == [lang |-> "fr", part |-> text.part, of |-> text.of]

ErrorPlaceholder == [lang |-> "Translation error", part |-> "", of |-> 0]

RECURSIVE Pow2(_)
Pow2(n) == IF n = 0 THEN 1 ELSE 2 * Pow2(n - 1)

Min(a, b) == IF a <= b THEN a ELSE b

Last(s) == s[Len(s)]

Range(s) == {s[i] : i \in 1..Len(s)}

\* str.upper() / str.lower() on the role names the code uses.
Upper(role) ==
    CASE role \in {"user", "USER"} -> "USER"
      [] role \in {"assistant", "ASSISTANT"} -> "ASSISTANT"

Lower(role) ==
    CASE role \in {"user", "USER"} -> "user"
      [] role \in {"assistant", "ASSISTANT"} -> "assistant"

(***************************************************************************)
(* ChromaDBClient: the conversations collection.  Conversations and their  *)
(* messages are documents of the same collection.                          *)
(***************************************************************************)
NoConversationId == 0

\* create_conversation: the document added for a new conversation
ConversationDoc(id, t) ==
    [id |-> id,
     document |-> "Conversation",
     metadata |-> [user_id |-> "", created_at |-> t, updated_at |-> t]]

\* add_message_to_conversation: the document added for a message
MessageDoc(id, conversation_id, role, content, t) ==
    [id |-> id,
     document |-> content,
     metadata |-> [conversation_id |-> conversation_id,
                   role |-> Upper(role),
                   created_at |-> t]]

\* collection.get(ids=[id])
GetByIds(coll, id) == SelectSeq(coll, LAMBDA d : d.id = id)

\* collection.get(where={"conversation_id": id})
GetWhereConversation(coll, id) ==
    SelectSeq(coll, LAMBDA d : /\ "conversation_id" \in DOMAIN d.metadata
                               /\ d.metadata.conversation_id = id)

\* list.sort(key=createdAt) is stable: x goes after the items not later than it
InsertByCreatedAt(sorted, x) ==
    LET k == Cardinality({i \in 1..Len(sorted) : sorted[i].createdAt <= x.createdAt})
    IN  SubSeq(sorted, 1, k) \o <<x>> \o SubSeq(sorted, k + 1, Len(sorted))

RECURSIVE SortByCreatedAt(_)
SortByCreatedAt(s) ==
    IF Len(s) <= 1 THEN s
    ELSE InsertByCreatedAt(SortByCreatedAt(SubSeq(s, 1, Len(s) - 1)), s[Len(s)])

\* get_conversation_with_messages: found is FALSE where the code returns None
\* (no document has that id, or the store raised: dbFails)
get_conversation_with_messages(coll, conversation_id, dbFails) ==
    IF dbFails \/ Len(GetByIds(coll, conversation_id)) = 0
    THEN [found |-> FALSE, id |-> conversation_id, messages |-> <<>>]
    ELSE LET results == GetWhereConversation(coll, conversation_id)
             withRole == SelectSeq(results, LAMBDA d : "role" \in DOMAIN d.metadata)
             messages == [i \in 1..Len(withRole) |->
                            [id |-> withRole[i].id,
                             role |-> withRole[i].metadata.role,
                             content |-> withRole[i].document,
                             createdAt |-> withRole[i].metadata.created_at]]
         IN  [found |-> TRUE, id |-> conversation_id,
              messages |-> SortByCreatedAt(messages)]

\* The documents of the collection that are conversations (not messages).
ConversationIds(coll) ==
    {coll[i].id : i \in {j \in 1..Len(coll) : "role" \notin DOMAIN coll[j].metadata}}

(***************************************************************************)
(* ChromaDBClient: the news collection.                                    *)
(***************************************************************************)
\* create_news_article: the document added for an article.  Texts are atoms:
\* the [:1000] cut of the metadata keeps which text it is a prefix of.
ArticleDoc(id, url, published_at, title_fr, content_fr, embedding, t) ==
    [id |-> id,
     document |-> [title |-> title_fr, content |-> content_fr],
     metadata |-> [title |-> Title(url),
                   title_fr |-> title_fr,
                   content |-> Content(url),
                   content_fr |-> content_fr,
                   url |-> url,
                   published_at |-> published_at,
                   created_at |-> t],
     embedding |-> embedding]

\* A store holding the first k articles of the feed, ingested without failure.
IngestedStore(k) ==
    [i \in 1..k |->
        ArticleDoc(i, i, [day |-> i, tod |-> 0],
                   FrenchOf(Title(i)), FrenchOf(Content(i)), "vector", 0)]

StoredUrls(coll) == {coll[i].metadata.url : i \in 1..Len(coll)}

\* retrieve_articles_node asks for limit=3 articles
ConversationLimit == 3

\* collection.query(query_texts=[q], n_results=limit): the ids of the nearest
\* articles, nearest first.  Which articles are nearest to a query is the
\* embedding model's choice: any ordering of min(limit, N) distinct articles.
QueryHits(coll, limit) ==
    LET n == Min(limit, Len(coll))
    IN  {h \in [1..n -> 1..Len(coll)] : \A i, j \in 1..n : i # j => h[i] # h[j]}

\* search_articles_by_similarity_sync: the raw query result (the inner lists
\* of the nested result), returned without applying similarity_threshold
search_articles_by_similarity_sync(coll, hits) ==
    [kind |-> "results",
     ids |-> [i \in 1..Len(hits) |-> coll[hits[i]].id],
     metadatas |-> [i \in 1..Len(hits) |-> coll[hits[i]].metadata],
     documents |-> [i \in 1..Len(hits) |-> coll[hits[i]].document]]

\* [] : what the search returns when the query raised
EmptyList == [kind |-> "list", ids |-> <<>>, metadatas |-> <<>>, documents |-> <<>>]

\* the key "relevant_articles" is not in the state
Absent == [kind |-> "absent", ids |-> <<>>, metadatas |-> <<>>, documents |-> <<>>]

\* Python truth value of state.get("relevant_articles", []): a dict with keys
\* is true, [] is false
Truthy(articles) == articles.kind = "results"

(***************************************************************************)
(* FrenchNewsConversationAgent: the conversation graph and chat().         *)
(***************************************************************************)
Intents == {"news_discussion", "general_chat"}

Languages == {"french", "english"}

\* What the structured-output call of analyze_query_node can return: the
\* QueryAnalysis patterns admit exactly these intents and languages.
Analyses ==
    {[keywords |-> "mots-cles", language |-> l, intent |-> i] :
        l \in Languages, i \in Intents}

\* analyze_query_node's fallback when the structured-output call raises
FallbackAnalysis(user_message) ==
    [keywords |-> user_message, language |-> "french", intent |-> "news_discussion"]

EmptyState ==
    [messages |-> <<>>, conversation_id |-> NoConversationId,
     query_analysis |-> <<>>, language |-> <<>>,
     relevant_articles |-> Absent, sources_used |-> <<>>]

NoResult ==
    [response |-> "", conversation_id |-> NoConversationId,
     relevant_articles |-> EmptyList, sources_used |-> <<>>]

NoResponse ==
    [response |-> "", conversation_id |-> NoConversationId,
     relevant_articles |-> <<>>, sources_used |-> <<>>]

\* No GET /conversation/{id} has been answered.
NoHistory ==
    [status |-> 0, conversation_id |-> NoConversationId, detail |-> "",
     messages |-> <<>>]

\* A router that retrieves whatever the intent.
should_retrieve_always(st) == "retrieve_articles"

\* should_retrieve_articles: the name of the next node
should_retrieve_articles(st) ==
    LET intent == IF st.query_analysis = <<>> THEN "news_discussion"
                  ELSE st.query_analysis[1].intent
    IN  IF intent = "news_discussion" THEN "retrieve_articles"
        ELSE "generate_response"

\* A mis-wired graph: retrieve_articles leads back to analyze_query.
EdgeBackToAnalysis(node) ==
    CASE node = "retrieve_articles" -> "analyze_query"
      [] node = "generate_response" -> "END"

\* The edges out of retrieve_articles and generate_response
Edge(node) ==
    CASE node = "retrieve_articles" -> "generate_response"
      [] node = "generate_response" -> "END"

\* Where chat() is once a node has run: at the edge's node, or, the graph
\* ended, at the saving of the messages
After(node) == IF Edge(node) = "END" THEN "save" ELSE Edge(node)

\* A chat() that ignores the id it is given.
IsGivenIgnored(conversation_id) == FALSE

\* chat(): `if conversation_id:`
IsGiven(conversation_id) == conversation_id # NoConversationId

\* result.get("relevant_articles", [])
GetRelevantArticles(st) ==
    IF st.relevant_articles.kind = "absent" THEN EmptyList ELSE st.relevant_articles

\* generate_response_node: the article list the context is built from
ArticleList(st) ==
    IF Truthy(st.relevant_articles) THEN st.relevant_articles.metadatas ELSE <<>>

\* sources_info numbered from 0: enumerate() without its start.
SourcesInfoFromZero(st) ==
    [i \in 1..Len(ArticleList(st)) |->
        [id |-> i - 1,
         title_fr |-> ArticleList(st)[i].title_fr,
         url |-> ArticleList(st)[i].url,
         published_at |-> ArticleList(st)[i].published_at]]

\* generate_response_node: sources_info, one entry per article, numbered from 1
SourcesInfo(st) ==
    [i \in 1..Len(ArticleList(st)) |->
        [id |-> i,
         title_fr |-> ArticleList(st)[i].title_fr,
         url |-> ArticleList(st)[i].url,
         published_at |-> ArticleList(st)[i].published_at]]

\* generate_response_node: the "[Source i] title / URL: url" entries of the prompt
ContextEntries(st) ==
    [i \in 1..Len(ArticleList(st)) |->
        [label |-> i,
         title_fr |-> ArticleList(st)[i].title_fr,
         url |-> ArticleList(st)[i].url]]

\* datetime.now() is the local wall clock, read without a time zone.  Between
\* two calls it has gone on, or it has been set back (the end of daylight
\* saving time, a correction of the clock).
ClockReadings(t) == {t + 1} \cup {u \in {t - 1} : u >= 0}

\* chat(), up to the graph: load the conversation or create one, append the
\* user message, prepare the state.  dbFails: the store raises while the
\* conversation is looked up or created.  clock: the wall clock at the call.
ChatStart(message, conversation_id, dbFails, clock) ==
    /\ pc \in {"idle", "done", "failed"}
    /\ chats < MaxChats                   \* bound: the number of calls
    /\ chats' = chats + 1
    /\ now' = clock
    /\ history' = NoHistory
    /\ req' = [message |-> message, conversation_id |-> conversation_id]
    /\ docsBefore' = conversations
    /\ nodes' = <<>>
    /\ context' = <<>>
    /\ result' = NoResult
    /\ response' = NoResponse
    /\ IF IsGiven(conversation_id)
       THEN LET conversation ==
                    get_conversation_with_messages(conversations, conversation_id, dbFails)
                messages == [i \in 1..Len(conversation.messages) |->
                                [role |-> Lower(conversation.messages[i].role),
                                 content |-> conversation.messages[i].content]]
            IN  /\ conversations' = conversations
                /\ IF ~conversation.found
                   THEN /\ error' = "Conversation not found"
                        /\ pc' = "failed"
                        /\ state' = EmptyState
                   ELSE /\ error' = ""
                        /\ pc' = "analyze_query"
                        /\ state' = [EmptyState EXCEPT
                              !.messages = Append(messages,
                                    [role |-> "user", content |-> message]),
                              !.conversation_id = conversation_id]
       ELSE LET id == Len(conversations) + 1
            IN  IF dbFails
                THEN /\ conversations' = conversations
                     /\ error' = "create_conversation failed"
                     /\ pc' = "failed"
                     /\ state' = EmptyState
                ELSE /\ conversations' = Append(conversations, ConversationDoc(id, now'))
                     /\ error' = ""
                     /\ pc' = "analyze_query"
                     /\ state' = [EmptyState EXCEPT
                           !.messages = <<[role |-> "user", content |-> message]>>,
                           !.conversation_id = id]
    /\ UNCHANGED <<news, runs, runsStarted, tasks>>
    /\ UNCHANGED readVars

\* analyze_query_node: the structured-output call answers with `analysis`, or
\* raises (llmFails) and the node falls back to its defaults
AnalyzeQuery(analysis, llmFails) ==
    /\ pc = "analyze_query"
    /\ LET user_message == Last(state.messages).content
           used == IF llmFails THEN FallbackAnalysis(user_message) ELSE analysis
       IN  state' = [state EXCEPT !.query_analysis = <<used>>,
                                  !.language = <<used.language>>]
    /\ nodes' = Append(nodes, "analyze_query")
    /\ pc' = "route"
    /\ UNCHANGED <<conversations, news, now, chats, req, context, docsBefore,
                   result, response, error, history, runs, runsStarted, tasks>>
    /\ UNCHANGED readVars

\* The conditional edge after analyze_query.  The router sets
\* state["relevant_articles"] = [] on the general_chat branch; whether an
\* assignment made inside a router reaches the state the next node sees is up
\* to the graph library (kept).
Route(kept) ==
    /\ pc = "route"
    /\ LET next_node == should_retrieve_articles(state)
       IN  /\ pc' = next_node
           /\ state' = IF next_node = "generate_response" /\ kept
                       THEN [state EXCEPT !.relevant_articles = EmptyList]
                       ELSE state
    /\ UNCHANGED <<conversations, news, now, chats, req, context, nodes, docsBefore,
                   result, response, error, history, runs, runsStarted, tasks>>
    /\ UNCHANGED readVars

\* retrieve_articles_node: get_articles_for_conversation_sync(keywords, limit=3);
\* a search that raises leaves []
RetrieveArticles(hits, searchFails) ==
    /\ pc = "retrieve_articles"
    /\ state' = [state EXCEPT !.relevant_articles =
                    IF searchFails THEN EmptyList
                    ELSE search_articles_by_similarity_sync(news, hits)]
    /\ nodes' = Append(nodes, "retrieve_articles")
    /\ pc' = After("retrieve_articles")
    /\ UNCHANGED <<conversations, news, now, chats, req, context, docsBefore,
                   result, response, error, history, runs, runsStarted, tasks>>
    /\ UNCHANGED readVars

\* generate_response_node: build the context and sources_used, call the model,
\* append its reply; a completion call that raises ends the graph run
GenerateResponse(reply, llmFails) ==
    /\ pc = "generate_response"
    /\ nodes' = Append(nodes, "generate_response")
    /\ context' = ContextEntries(state)
    /\ IF llmFails
       THEN /\ state' = [state EXCEPT !.sources_used = SourcesInfo(state)]
            /\ error' = "completion failed"
            /\ pc' = "failed"
       ELSE /\ state' = [state EXCEPT
                  !.sources_used = SourcesInfo(state),
                  !.messages = Append(state.messages,
                                      [role |-> "assistant", content |-> reply])]
            /\ error' = error
            /\ pc' = After("generate_response")
    /\ UNCHANGED <<conversations, news, now, chats, req, docsBefore,
                   result, response, history, runs, runsStarted, tasks>>
    /\ UNCHANGED readVars

\* A chat() that stores the reply before the user message.
SavedMessagesReplyFirst(id, cid, message, reply, t1, t2) ==
    <<MessageDoc(id, cid, "ASSISTANT", reply, t1),
      MessageDoc(id + 1, cid, "USER", message, t2)>>

\* chat(): the two add_message_to_conversation calls after the graph
SavedMessages(id, cid, message, reply, t1, t2) ==
    <<MessageDoc(id, cid, "USER", message, t1),
      MessageDoc(id + 1, cid, "ASSISTANT", reply, t2)>>

\* chat(), after the graph: store the user message and the reply, return.
\* The second datetime.now() reads the same instant (tick = 0) or a later one.
\* addFails: which of the two adds raises (0: none); the messages added
\* before it stay in the store and chat() raises.
SaveMessages(tick, addFails) ==
    /\ pc = "save"
    /\ LET saved == SavedMessages(Len(conversations) + 1, state.conversation_id,
                                  req.message, Last(state.messages).content,
                                  now, now + tick)
       IN  conversations' = conversations \o
              (IF addFails = 0 THEN saved ELSE SubSeq(saved, 1, addFails - 1))
    /\ now' = IF addFails = 0 THEN now + tick ELSE now
    /\ IF addFails = 0
       THEN /\ result' = [response |-> Last(state.messages).content,
                          conversation_id |-> state.conversation_id,
                          relevant_articles |-> GetRelevantArticles(state),
                          sources_used |-> state.sources_used]
            /\ pc' = "respond"
            /\ error' = error
       ELSE /\ result' = result
            /\ pc' = "failed"
            /\ error' = "add_message_to_conversation failed"
    /\ UNCHANGED <<news, chats, req, state, context, nodes, docsBefore,
                   response, history, runs, runsStarted, tasks>>
    /\ UNCHANGED readVars

\* str[:10] of an ISO timestamp: the date without the time of day
Date10(published_at) == published_at.day

\* POST /chat: relevant_articles becomes the documents of the result, each
\* source a NewsSource with its date cut to the day
ApiChat ==
    /\ pc = "respond"
    /\ response' =
          [response |-> result.response,
           conversation_id |-> result.conversation_id,
           relevant_articles |-> IF Truthy(result.relevant_articles)
                                 THEN result.relevant_articles.documents ELSE <<>>,
           sources_used |-> [i \in 1..Len(result.sources_used) |->
                               [id |-> result.sources_used[i].id,
                                title_fr |-> result.sources_used[i].title_fr,
                                url |-> result.sources_used[i].url,
                                published_at |->
                                    Date10(result.sources_used[i].published_at)]]]
    /\ pc' = "done"
    /\ UNCHANGED <<conversations, news, now, chats, req, state, context, nodes,
                   docsBefore, result, error, history, runs, runsStarted, tasks>>
    /\ UNCHANGED readVars

\* get_conversation_history: the history, or a dict with the key "error".
\* The store raising (dbFails) is caught inside get_conversation_with_messages,
\* which then returns None like for a conversation that does not exist.
get_conversation_history(coll, conversation_id, dbFails) ==
    LET conversation == get_conversation_with_messages(coll, conversation_id, dbFails)
    IN  IF ~conversation.found
        THEN [error |-> "Conversation not found", conversation_id |-> conversation_id,
              messages |-> <<>>]
        ELSE [error |-> "", conversation_id |-> conversation_id,
              messages |-> [i \in 1..Len(conversation.messages) |->
                              [role |-> Lower(conversation.messages[i].role),
                               content |-> conversation.messages[i].content,
                               created_at |-> conversation.messages[i].createdAt]]]

\* GET /conversation/{conversation_id}: a result with the key "error" becomes
\* a 404 with the error as detail, any other result is returned.  The request
\* is handled between chat() calls: the locals of the last call are gone.
ApiGetConversation(conversation_id, dbFails) ==
    /\ pc \in {"idle", "done", "failed"}
    /\ LET got == get_conversation_history(conversations, conversation_id, dbFails)
       IN  history' = IF got.error # ""
                      THEN [status |-> 404, conversation_id |-> conversation_id,
                            detail |-> got.error, messages |-> <<>>]
                      ELSE [status |-> 200, conversation_id |-> got.conversation_id,
                            detail |-> "", messages |-> got.messages]
    /\ pc' = "idle"
    /\ req' = [message |-> "", conversation_id |-> NoConversationId]
    /\ state' = EmptyState
    /\ context' = <<>>
    /\ nodes' = <<>>
    /\ docsBefore' = <<>>
    /\ result' = NoResult
    /\ response' = NoResponse
    /\ error' = ""
    /\ UNCHANGED <<conversations, news, now, chats, runs, runsStarted, tasks>>
    /\ UNCHANGED readVars

ChatInit ==
    /\ conversations = <<>>
    /\ now = 0
    /\ chats = 0
    /\ pc = "idle"
    /\ req = [message |-> "", conversation_id |-> NoConversationId]
    /\ state = EmptyState
    /\ context = <<>>
    /\ nodes = <<>>
    /\ docsBefore = <<>>
    /\ result = NoResult
    /\ response = NoResponse
    /\ error = ""
    /\ history = NoHistory

\* The four steps of a graph run.
GraphNext ==
    \/ \E analysis \in Analyses, llmFails \in BOOLEAN : AnalyzeQuery(analysis, llmFails)
    \/ \E kept \in BOOLEAN : Route(kept)
    \/ \E hits \in QueryHits(news, ConversationLimit), searchFails \in BOOLEAN :
            RetrieveArticles(hits, searchFails)
    \/ \E reply \in Replies, llmFails \in BOOLEAN : GenerateResponse(reply, llmFails)

\* POST /chat with a clock that goes on and a store that takes the two
\* messages of every turn.
ChatNext ==
    \/ \E message \in UserTexts, conversation_id \in {NoConversationId} \cup DocIds,
          dbFails \in BOOLEAN :
            ChatStart(message, conversation_id, dbFails, now + 1)
    \/ GraphNext
    \/ \E tick \in {0, 1} : SaveMessages(tick, 0)
    \/ ApiChat

\* POST /chat and GET /conversation/{id} with a clock that may be set back
\* and a store that may raise on any call.
HistoryNext ==
    \/ \E message \in UserTexts, conversation_id \in {NoConversationId} \cup DocIds,
          dbFails \in BOOLEAN, clock \in ClockReadings(now) :
            ChatStart(message, conversation_id, dbFails, clock)
    \/ GraphNext
    \/ \E tick \in {0, 1}, addFails \in 0..2 : SaveMessages(tick, addFails)
    \/ ApiChat
    \/ \E conversation_id \in DocIds, dbFails \in BOOLEAN :
            ApiGetConversation(conversation_id, dbFails)

(***************************************************************************)
(* Ingestion: _process_news_async (the Celery task fetch_and_process_news, *)
(* started by the beat schedule or by POST /celery/trigger-news-fetch) and *)
(* DailyNewsProcessor.process_daily_news (the background job of POST       *)
(* /process-news).  runs[r] holds the locals of the run started from r.    *)
(***************************************************************************)
\* Which of the two loops a run executes.
Kind(r) == IF r = "process-news" THEN "api" ELSE "celery"

\* BBCNewsFetcher.fetch_latest_news(limit): an article per item of rss_items[:limit]
fetch_latest_news(limit) ==
    [i \in 1..Min(limit, Len(Rss)) |->
        [url |-> Rss[i], published_at |-> [day |-> Rss[i], tod |-> 0]]]

NoText == [lang |-> "", part |-> "", of |-> 0]

NewRun ==
    [pc |-> "new", articles |-> <<>>, i |-> 1,
     title_fr |-> NoText, content_fr |-> NoText, embedding |-> "",
     steps |-> <<>>,
     processed_count |-> 0, skipped_count |-> 0, total_fetched |-> 0]

\* The article the run is working on.
Article(run) == run.articles[run.i]

Active(run) == run.pc \in {"lookup", "translate_title", "translate_content",
                           "embed", "store"}

\* The for loop: on to the next article, or out of the loop and return
NextArticle(run) ==
    LET next == [run EXCEPT !.title_fr = NoText, !.content_fr = NoText,
                            !.embedding = "", !.steps = <<>>]
    IN  IF run.i < Len(run.articles)
        THEN [next EXCEPT !.i = run.i + 1, !.pc = "lookup"]
        ELSE [next EXCEPT !.pc = "returned"]

\* get_news_article_by_url: TRUE when it returns an article; a store that
\* raises is answered with None, like a URL that is not stored
get_news_article_by_url(coll, url, lookupFails) ==
    IF lookupFails THEN FALSE ELSE url \in StoredUrls(coll)

\* translate_to_french_b1: the translation, or, when the completion call
\* raises, the exception's text as the result
translate_to_french_b1(text, callFails) ==
    IF callFails THEN ErrorPlaceholder ELSE FrenchOf(text)

\* A pipeline that stores the article although its embedding raised.
AfterEmbeddingStoreAnyway(run, embedFails) ==
    IF embedFails
    THEN [run EXCEPT !.pc = "store"]
    ELSE [run EXCEPT !.embedding = "vector",
                     !.steps = Append(run.steps, "embed"),
                     !.pc = "store"]

\* Where the pipeline goes after embedding_service.create_embedding: on to
\* create_news_article, or, when it raised, out of the article
AfterEmbedding(run, embedFails) ==
    IF embedFails
    THEN NextArticle(run)
    ELSE [run EXCEPT !.embedding = "vector",
                     !.steps = Append(run.steps, "embed"),
                     !.pc = "store"]

\* Where the loop goes after the existence check: skip the article (counted
\* by the Celery task only), or process it
AfterLookup(r, run, existing) ==
    IF existing
    THEN NextArticle([run EXCEPT !.skipped_count =
                        IF Kind(r) = "celery" THEN run.skipped_count + 1
                        ELSE run.skipped_count])
    ELSE [run EXCEPT !.steps = <<"lookup">>, !.pc = "translate_title"]

\* A run starts: fetch the feed.  A fetch that raises ends the run with the
\* exception (the Celery task then asks for a retry).
StartRun(r, limit, fetchFails) ==
    /\ runs[r].pc = "new"
    /\ runsStarted < MaxRuns              \* bound: the number of runs
    /\ Len(news) + limit <= MaxStore      \* bound: the store has room for the run
    /\ runsStarted' = runsStarted + 1
    /\ LET articles == fetch_latest_news(limit)
       IN  runs' = [runs EXCEPT ![r] =
              IF fetchFails
              THEN [NewRun EXCEPT !.pc = "raised"]
              ELSE [NewRun EXCEPT !.articles = articles,
                                  !.total_fetched = Len(articles),
                                  !.pc = IF Len(articles) = 0 THEN "returned"
                                         ELSE "lookup"]]
    /\ UNCHANGED <<news, tasks>>
    /\ UNCHANGED chatVars
    /\ UNCHANGED readVars

\* existing = await db_client.get_news_article_by_url(article.url)
Lookup(r, lookupFails) ==
    /\ runs[r].pc = "lookup"
    /\ LET existing ==
              get_news_article_by_url(news, Article(runs[r]).url, lookupFails)
       IN  runs' = [runs EXCEPT ![r] = AfterLookup(r, runs[r], existing)]
    /\ UNCHANGED <<news, runsStarted, tasks>>
    /\ UNCHANGED chatVars
    /\ UNCHANGED readVars

\* title_fr = await translator.translate_title(article.title).  The await is
\* where a cancellation of the run is delivered; it is no Exception, so
\* neither the translator nor the loop catches it.
TranslateTitle(r, outcome) ==
    /\ runs[r].pc = "translate_title"
    /\ LET run == runs[r]
       IN  runs' = [runs EXCEPT ![r] =
              IF outcome = "cancelled"
              THEN [NewRun EXCEPT !.pc = "cancelled"]
              ELSE [run EXCEPT
                      !.title_fr = translate_to_french_b1(Title(Article(run).url),
                                                          outcome = "error"),
                      !.steps = Append(run.steps, "translate_title"),
                      !.pc = "translate_content"]]
    /\ UNCHANGED <<news, runsStarted, tasks>>
    /\ UNCHANGED chatVars
    /\ UNCHANGED readVars

\* content_fr = await translator.translate_content(article.content): one call,
\* or one per chunk of a long text; "error" when a call of them raised
TranslateContent(r, outcome) ==
    /\ runs[r].pc = "translate_content"
    /\ LET run == runs[r]
       IN  runs' = [runs EXCEPT ![r] =
              IF outcome = "cancelled"
              THEN [NewRun EXCEPT !.pc = "cancelled"]
              ELSE [run EXCEPT
                      !.content_fr = translate_to_french_b1(Content(Article(run).url),
                                                            outcome = "error"),
                      !.steps = Append(run.steps, "translate_content"),
                      !.pc = "embed"]]
    /\ UNCHANGED <<news, runsStarted, tasks>>
    /\ UNCHANGED chatVars
    /\ UNCHANGED readVars

\* embedding = embedding_service.create_embedding(combined_text)
Embed(r, embedFails) ==
    /\ runs[r].pc = "embed"
    /\ runs' = [runs EXCEPT ![r] = AfterEmbedding(runs[r], embedFails)]
    /\ UNCHANGED <<news, runsStarted, tasks>>
    /\ UNCHANGED chatVars
    /\ UNCHANGED readVars

\* await db_client.create_news_article(...); an add that raises stores nothing
Store(r, addFails) ==
    /\ runs[r].pc = "store"
    /\ LET run == runs[r]
           a == Article(run)
       IN  IF addFails
           THEN /\ news' = news
                /\ runs' = [runs EXCEPT ![r] = NextArticle(run)]
           ELSE /\ news' = Append(news,
                      ArticleDoc(Len(news) + 1, a.url, a.published_at,
                                 run.title_fr, run.content_fr, run.embedding, 0))
                /\ runs' = [runs EXCEPT ![r] = NextArticle(
                      [run EXCEPT !.processed_count = run.processed_count + 1])]
    /\ UNCHANGED <<runsStarted, tasks>>
    /\ UNCHANGED chatVars
    /\ UNCHANGED readVars

\* The run is over: its counts went to the caller, or its exception did.
EndRun(r) ==
    /\ runs[r].pc \in {"returned", "raised", "cancelled"}
    /\ runs' = [runs EXCEPT ![r] = NewRun]
    /\ UNCHANGED <<news, runsStarted, tasks>>
    /\ UNCHANGED chatVars
    /\ UNCHANGED readVars

\* Runs one after the other: a run starts when no other is under way.
StartRunInSequence(r, limit, fetchFails) ==
    /\ \A q \in RunIds : runs[q].pc = "new"
    /\ StartRun(r, limit, fetchFails)

TranslationOutcomes == {"ok", "error", "cancelled"}

IngestInit ==
    /\ runs = [r \in RunIds |-> NewRun]
    /\ runsStarted = 0

IngestSteps ==
    \/ \E r \in RunIds, lookupFails \in BOOLEAN : Lookup(r, lookupFails)
    \/ \E r \in RunIds, outcome \in TranslationOutcomes : TranslateTitle(r, outcome)
    \/ \E r \in RunIds, outcome \in TranslationOutcomes : TranslateContent(r, outcome)
    \/ \E r \in RunIds, embedFails \in BOOLEAN : Embed(r, embedFails)
    \/ \E r \in RunIds, addFails \in BOOLEAN : Store(r, addFails)
    \/ \E r \in RunIds : EndRun(r)

IngestNext ==
    \/ \E r \in RunIds, limit \in 0..MaxFeed, fetchFails \in BOOLEAN :
            StartRunInSequence(r, limit, fetchFails)
    \/ IngestSteps

\* Runs side by side: the beat task, a triggered task and the background job
\* run in processes of their own on the same store, and nothing keeps one
\* from starting while another is under way.
ConcurrentNext ==
    \/ \E r \in RunIds, limit \in 0..MaxFeed, fetchFails \in BOOLEAN :
            StartRun(r, limit, fetchFails)
    \/ IngestSteps

(***************************************************************************)
(* The retried Celery tasks.  A request runs the task body; when the body  *)
(* raises, the task calls self.retry(exc=exc, countdown=...).              *)
(***************************************************************************)
TaskNames == {"fetch_and_process_news", "translate_article",
              "create_embeddings", "cleanup_old_articles"}

\* task_max_retries
MaxRetries == 3

\* The factor of each task's countdown expression.
CountdownBase(name) ==
    CASE name = "fetch_and_process_news" -> 60
      [] name = "translate_article" -> 30
      [] name = "create_embeddings" -> 15
      [] name = "cleanup_old_articles" -> 60

\* A linear backoff: base * (retries + 1).
CountdownLinear(name, retries) == CountdownBase(name) * (retries + 1)

\* countdown=base * (2 ** self.request.retries)
Countdown(name, retries) == CountdownBase(name) * Pow2(retries)

\* A retry limit that is one too high.
CanRetryOnceMore(retries) == retries <= MaxRetries

\* self.retry: a new attempt is scheduled unless the retries are used up, in
\* which case the exception is raised and the request fails
CanRetry(retries) == retries + 1 <= MaxRetries

NewRequest ==
    [status |-> "PENDING", retries |-> 0, executions |-> 0, countdowns |-> <<>>]

\* A worker runs the request of task `name`; the body returns or raises.
Execute(name, bodyRaises) ==
    /\ tasks[name].status \in {"PENDING", "RETRY"}
    /\ LET t == [tasks[name] EXCEPT !.executions = @ + 1]
       IN  tasks' = [tasks EXCEPT ![name] =
              IF ~bodyRaises
              THEN [t EXCEPT !.status = "SUCCESS"]
              ELSE IF CanRetry(t.retries)
                   THEN [t EXCEPT !.status = "RETRY",
                                  !.countdowns = Append(@, Countdown(name, t.retries)),
                                  !.retries = @ + 1]
                   ELSE [t EXCEPT !.status = "FAILURE"]]
    /\ UNCHANGED <<news, runs, runsStarted>>
    /\ UNCHANGED chatVars
    /\ UNCHANGED readVars

TasksInit == tasks = [name \in TaskNames |-> NewRequest]

TasksNext == \E name \in TaskNames, bodyRaises \in BOOLEAN : Execute(name, bodyRaises)

(***************************************************************************)
(* Reading and maintaining the news collection: GET /news, the task        *)
(* cleanup_old_articles and the two similarity searches.                   *)
(***************************************************************************)
\* p is later than q
Later(p, q) == p.day > q.day \/ (p.day = q.day /\ p.tod > q.tod)

\* news_collection.get(limit=k): the store returns min(k, N) of its N
\* documents; which ones is its choice (it has no ordering of its own).
\* picks: the positions of the documents returned.
GetLimit(coll, k) ==
    LET n == Min(k, Len(coll))
    IN  {picks \in [1..n -> 1..Len(coll)] :
            \A i, j \in 1..n : i < j => picks[i] < picks[j]}

\* list.sort(key=publishedAt, reverse=True) is stable: x goes after the items
\* not earlier than it
InsertByPublishedAtDesc(sorted, x) ==
    LET k == Cardinality({i \in 1..Len(sorted) :
                             ~Later(x.publishedAt, sorted[i].publishedAt)})
    IN  SubSeq(sorted, 1, k) \o <<x>> \o SubSeq(sorted, k + 1, Len(sorted))

RECURSIVE SortByPublishedAtDesc(_)
SortByPublishedAtDesc(s) ==
    IF Len(s) <= 1 THEN s
    ELSE InsertByPublishedAtDesc(SortByPublishedAtDesc(SubSeq(s, 1, Len(s) - 1)),
                                 s[Len(s)])

\* get_recent_news_articles(limit): get(limit=limit * 2), sort by published
\* date, most recent first, cut to limit
get_recent_news_articles(coll, limit, picks) ==
    LET articles == [i \in 1..Len(picks) |->
                       [id |-> coll[picks[i]].id,
                        url |-> coll[picks[i]].metadata.url,
                        publishedAt |-> coll[picks[i]].metadata.published_at]]
        sorted == SortByPublishedAtDesc(articles)
    IN  SubSeq(sorted, 1, Min(limit, Len(sorted)))

NoRecent == [status |-> 0, limit |-> 0, articles |-> <<>>]

\* GET /news?limit=: the articles of get_recent_news_articles, or 500 when
\* the store raised
ApiGetRecentNews(limit, picks, getFails) ==
    /\ recent' = IF getFails
                 THEN [status |-> 500, limit |-> limit, articles |-> <<>>]
                 ELSE [status |-> 200, limit |-> limit,
                       articles |-> get_recent_news_articles(news, limit, picks)]
    /\ UNCHANGED <<news, runs, runsStarted, tasks, cleaned, found>>
    /\ UNCHANGED chatVars

NoCleanup == [status |-> "", deleted_count |-> 0, cutoff_date |-> 0, stored_before |-> 0]

\* cleanup_old_articles(days_old) on the day `today`: the cutoff date is
\* computed and logged, nothing is deleted (the delete is commented out),
\* and the task returns deleted_count = 0
CleanupOldArticles(days_old, today) ==
    /\ cleaned' = [status |-> "success",
                   deleted_count |-> 0,
                   cutoff_date |-> today - days_old,
                   stored_before |-> Len(news)]
    /\ news' = news
    /\ UNCHANGED <<runs, runsStarted, tasks, recent, found>>
    /\ UNCHANGED chatVars

\* Distances and similarities in tenths: similarity = 1 - distance.
Distances == {2, 9}

\* similarity_threshold: the default 0.7, and the 0.3 the conversation asks for
Thresholds == {3, 7}

\* The distances of a query result, nearest first.
QueryDistances(n) ==
    {d \in [1..n -> Distances] : \A i, j \in 1..n : i < j => d[i] <= d[j]}

\* search_articles_by_similarity: the ids of the articles of the query result
\* whose similarity is at least the threshold
search_articles_by_similarity(coll, hits, distances, similarity_threshold) ==
    LET passing == SelectSeq([i \in 1..Len(hits) |-> i],
                             LAMBDA i : 10 - distances[i] >= similarity_threshold)
    IN  [i \in 1..Len(passing) |-> coll[hits[passing[i]]].id]

NoFound ==
    [asked |-> FALSE, threshold |-> 0, similarities |-> <<>>,
     sync |-> <<>>, async |-> <<>>]

\* The same query put to both searches: get_articles_for_conversation and
\* get_articles_for_conversation_sync with the same limit and threshold
Search(hits, distances, similarity_threshold) ==
    /\ found' = [asked |-> TRUE,
                 threshold |-> similarity_threshold,
                 similarities |-> [i \in 1..Len(hits) |->
                                     [id |-> news[hits[i]].id,
                                      similarity |-> 10 - distances[i]]],
                 sync |-> search_articles_by_similarity_sync(news, hits).ids,
                 async |-> search_articles_by_similarity(news, hits, distances,
                                                         similarity_threshold)]
    /\ UNCHANGED <<news, runs, runsStarted, tasks, recent, cleaned>>
    /\ UNCHANGED chatVars

ReadInit ==
    /\ recent = NoRecent
    /\ cleaned = NoCleanup
    /\ found = NoFound

ReadNext ==
    \/ \E limit \in 1..MaxLimit, getFails \in BOOLEAN :
          \E picks \in GetLimit(news, limit * 2) :
            ApiGetRecentNews(limit, picks, getFails)
    \/ \E days_old \in 0..MaxDaysOld, today \in 0..(MaxStore + 1) :
            CleanupOldArticles(days_old, today)
    \/ \E hits \in QueryHits(news, ConversationLimit), threshold \in Thresholds :
          \E distances \in QueryDistances(Len(hits)) :
            Search(hits, distances, threshold)

(***************************************************************************)
(* Specifications.                                                         *)
(***************************************************************************)
Init ==
    /\ ChatInit
    /\ news = <<>>
    /\ IngestInit
    /\ TasksInit
    /\ ReadInit

Next ==
    \/ HistoryNext
    \/ IngestNext
    \/ TasksNext
    \/ ReadNext

Spec == Init /\ [][Next]_vars

\* chat() calls against a store that ingestion has filled with k articles
InitChat ==
    /\ ChatInit
    /\ news \in {IngestedStore(k) : k \in 0..MaxStore}
    /\ IngestInit
    /\ TasksInit
    /\ ReadInit

NextChat == ChatNext

SpecChat == InitChat /\ [][NextChat]_vars

NextIngest == IngestNext

SpecIngest == Init /\ [][NextIngest]_vars

NextTasks == TasksNext

SpecTasks == Init /\ [][NextTasks]_vars

\* Ingestion runs that may overlap
NextConcurrent == ConcurrentNext

SpecConcurrent == Init /\ [][NextConcurrent]_vars

\* Reads of a store that ingestion has filled with k articles
NextRead == ReadNext

SpecRead == InitChat /\ [][NextRead]_vars

\* chat() calls and history requests from the empty stores
NextHistory == HistoryNext

SpecHistory == Init /\ [][NextHistory]_vars

(***************************************************************************)
(* Properties.                                                             *)
(***************************************************************************)
\* The graph run of the call in flight has ended.
GraphEnded ==
    \/ pc \in {"save", "respond", "done"}
    \/ pc = "failed" /\ error \in {"completion failed",
                                    "add_message_to_conversation failed"}

Retrieved == "retrieve_articles" \in Range(nodes)

\* C1: a graph run executes analyze_query first, then retrieve_articles at
\* most once, then generate_response exactly once, and then ends; no node
\* runs twice and generate_response runs only after the analysis is there.
C1_GraphOrder ==
    /\ nodes \in {<<>>,
                  <<"analyze_query">>,
                  <<"analyze_query", "retrieve_articles">>,
                  <<"analyze_query", "generate_response">>,
                  <<"analyze_query", "retrieve_articles", "generate_response">>}
    /\ GraphEnded <=> (nodes # <<>> /\ Last(nodes) = "generate_response")
    /\ pc \in {"route", "retrieve_articles", "generate_response"} =>
          /\ nodes # <<>>
          /\ state.query_analysis # <<>>
    /\ pc = "failed" /\ error \in {"Conversation not found",
                                    "create_conversation failed"} => nodes = <<>>

C1_Witness ==
    /\ pc = "done"
    /\ nodes = <<"analyze_query", "retrieve_articles", "generate_response">>

\* C2: once the router has decided, retrieve_articles is (being) executed if
\* and only if the analysed intent is "news_discussion"; for any other intent
\* the turn has no relevant articles, in the state and in what is returned.
C2_Routing ==
    pc \in {"retrieve_articles", "generate_response", "save", "respond", "done"}
       \/ (pc = "failed" /\ nodes # <<>>)
    => LET intent == state.query_analysis[1].intent
       IN  /\ (Retrieved \/ pc = "retrieve_articles") <=> intent = "news_discussion"
           /\ intent # "news_discussion" =>
                /\ ~Truthy(state.relevant_articles)
                /\ pc \in {"respond", "done"} =>
                      result.relevant_articles = EmptyList
                /\ pc = "done" => response.relevant_articles = <<>>

C2_Witness ==
    /\ pc = "done"
    /\ state.query_analysis[1].intent = "general_chat"
    /\ nodes = <<"analyze_query", "generate_response">>

\* The articles the retrieval of this turn returned, in retrieval order.
RetrievedArticles ==
    IF Retrieved /\ state.relevant_articles.kind = "results"
    THEN state.relevant_articles.metadatas
    ELSE <<>>

\* C3: the sources_used that POST /chat returns hold one entry per article
\* retrieved in the turn, with ids 1..n in retrieval order that are the
\* "[Source i]" labels of the prompt; none when retrieval was skipped, failed
\* or found nothing.
C3_SourcesCited ==
    pc = "done" =>
       /\ Len(response.sources_used) = Len(RetrievedArticles)
       /\ Len(context) = Len(RetrievedArticles)
       /\ \A i \in 1..Len(RetrievedArticles) :
             /\ response.sources_used[i].id = i
             /\ response.sources_used[i].url = RetrievedArticles[i].url
             /\ response.sources_used[i].title_fr = RetrievedArticles[i].title_fr
             /\ response.sources_used[i].url \in StoredUrls(news)
             /\ context[i].label = response.sources_used[i].id
             /\ context[i].url = response.sources_used[i].url
       /\ (~Retrieved \/ state.relevant_articles.kind = "list") =>
             response.sources_used = <<>>

C3_Witness ==
    /\ pc = "done"
    /\ Len(response.sources_used) >= 2
    /\ response.sources_used[1].url # 1

FullSteps == <<"lookup", "translate_title", "translate_content", "embed">>

\* C4: create_news_article is called for an article only by a run that has
\* completed, in this order, the translation of its title, the translation
\* of its content and its embedding; a run in which one of them raised does
\* not get to store the article.
C4_StoreComesLast ==
    /\ [](\A r \in RunIds :
            /\ runs[r].pc = "store" =>
                  /\ runs[r].steps = FullSteps
                  /\ runs[r].title_fr # NoText
                  /\ runs[r].content_fr # NoText
                  /\ runs[r].embedding = "vector"
            /\ runs[r].pc = "embed" =>
                  runs[r].steps = SubSeq(FullSteps, 1, 3))
    /\ [][news' # news =>
            \E r \in RunIds :
               /\ runs[r].pc = "store"
               /\ runs[r].steps = FullSteps
               /\ news' = Append(news, Last(news'))
               /\ Last(news').metadata.url = Article(runs[r]).url
               /\ Last(news').metadata.title_fr = runs[r].title_fr
               /\ Last(news').metadata.content_fr = runs[r].content_fr]_vars

\* A run that fetched two articles has returned: one was stored, the other
\* raised on the way and was not.
C4_Witness ==
    \E r \in RunIds :
       /\ runs[r].pc = "returned"
       /\ runs[r].total_fetched = 2
       /\ runs[r].processed_count = 1
       /\ runs[r].skipped_count = 0
       /\ Len(news) = 1

\* C5: every stored article carries a title and a content that a successful
\* translator call returned, never the placeholder of a failed one, and an
\* embedding.
C5_StoredAreTranslated ==
    \A i \in 1..Len(news) :
       /\ news[i].metadata.title_fr = FrenchOf(news[i].metadata.title)
       /\ news[i].metadata.content_fr = FrenchOf(news[i].metadata.content)
       /\ news[i].embedding = "vector"

\* C6: a request is executed at most 4 times (3 retries); after the fourth
\* failure it is in the failed state.
C6_BoundedRetries ==
    \A name \in TaskNames :
       /\ tasks[name].executions <= 4
       /\ tasks[name].retries <= 3
       /\ Len(tasks[name].countdowns) = tasks[name].retries
       /\ tasks[name].status = "RETRY" => tasks[name].executions = tasks[name].retries
       /\ tasks[name].status = "FAILURE" => tasks[name].executions = 4
       /\ tasks[name].executions = 4 => tasks[name].status \in {"SUCCESS", "FAILURE"}

C6_Witness ==
    /\ tasks["fetch_and_process_news"].status = "FAILURE"
    /\ tasks["cleanup_old_articles"].status = "FAILURE"
    /\ tasks["translate_article"].executions = 4

\* C7: the k-th retry of a task is scheduled with a countdown of
\* base * 2^(k-1) seconds, base being 60, 30, 15 and 60: each delay is twice
\* the one before.
C7_ExponentialBackoff ==
    LET base == [fetch_and_process_news |-> 60, translate_article |-> 30,
                 create_embeddings |-> 15, cleanup_old_articles |-> 60]
    IN  \A name \in TaskNames :
           \A k \in 1..Len(tasks[name].countdowns) :
              /\ k = 1 => tasks[name].countdowns[k] = base[name]
              /\ k > 1 => tasks[name].countdowns[k] = 2 * tasks[name].countdowns[k - 1]

C7_Witness ==
    /\ tasks["create_embeddings"].countdowns = <<15, 30, 60>>
    /\ tasks["fetch_and_process_news"].countdowns = <<60, 120, 240>>

\* C8: an article whose URL is in the store is skipped: no run translates,
\* embeds or stores an article whose URL the store holds.
C8_ExistingSkipped ==
    \A r \in RunIds :
       runs[r].pc \in {"translate_title", "translate_content", "embed", "store"} =>
          Article(runs[r]).url \notin StoredUrls(news)

AllIds(coll) == {coll[i].id : i \in 1..Len(coll)}

\* C9: a chat() that returns, called without a conversation id, has created
\* exactly one conversation and returns its id, an id no document had; called
\* with the id of an existing conversation it has created none and returns
\* that id.
C9_StartOrContinue ==
    pc = "done" =>
       /\ ~IsGiven(req.conversation_id) =>
             /\ response.conversation_id \notin AllIds(docsBefore)
             /\ ConversationIds(conversations) =
                   ConversationIds(docsBefore) \cup {response.conversation_id}
       /\ req.conversation_id \in ConversationIds(docsBefore) =>
             /\ response.conversation_id = req.conversation_id
             /\ ConversationIds(conversations) = ConversationIds(docsBefore)

C9_Witness ==
    /\ pc = "done"
    /\ req.conversation_id \in ConversationIds(docsBefore)
    /\ Len(state.messages) = 4

\* C10: a chat() called with an id that is no existing conversation's fails
\* with "Conversation not found" before the graph runs and leaves the
\* conversations collection as it was.
C10_UnknownIdFails ==
    pc # "idle" /\ IsGiven(req.conversation_id)
                /\ req.conversation_id \notin ConversationIds(docsBefore)
    => /\ pc = "failed"
       /\ error = "Conversation not found"
       /\ nodes = <<>>
       /\ conversations = docsBefore

\* C11: a chat() that has returned has added exactly two documents to the
\* collection after those it found (and the conversation it created): the
\* USER message with the text of the call, then the ASSISTANT message, both
\* under the conversation id it returns; the ASSISTANT content is the
\* response returned by chat() and by POST /chat.
C11_TwoMessagesAppended ==
    pc \in {"respond", "done"} =>
       LET cid == result.conversation_id
           created == IF IsGiven(req.conversation_id) THEN 0 ELSE 1
           n == Len(docsBefore) + created
       IN  /\ Len(conversations) = n + 2
           /\ SubSeq(conversations, 1, Len(docsBefore)) = docsBefore
           /\ GetWhereConversation(conversations, cid) =
                 GetWhereConversation(docsBefore, cid) \o
                    <<conversations[n + 1], conversations[n + 2]>>
           /\ conversations[n + 1].metadata.role = "USER"
           /\ conversations[n + 1].document = req.message
           /\ conversations[n + 2].metadata.role = "ASSISTANT"
           /\ conversations[n + 2].document = result.response
           /\ pc = "done" => conversations[n + 2].document = response.response

\* The second turn of a conversation has returned: it holds four messages.
C11_Witness ==
    /\ pc = "done"
    /\ IsGiven(req.conversation_id)
    /\ Len(GetWhereConversation(conversations, response.conversation_id)) = 4
    /\ Last(conversations).metadata.role = "ASSISTANT"
    /\ Last(conversations).document = response.response

\* The messages of conversation cid in the order in which they were added.
Added(coll, cid) ==
    SelectSeq(GetWhereConversation(coll, cid), LAMBDA d : "role" \in DOMAIN d.metadata)

\* C12: get_conversation_with_messages returns the messages of a conversation
\* in the order in which they were added, and the message list a continuing
\* chat() gives to the graph is that history followed by the new user message.
C12_HistoryInOrder ==
    /\ \A cid \in ConversationIds(conversations) :
          LET got == get_conversation_with_messages(conversations, cid, FALSE).messages
              added == Added(conversations, cid)
          IN  [i \in 1..Len(got) |-> got[i].id] = [i \in 1..Len(added) |-> added[i].id]
    /\ pc = "analyze_query" /\ req.conversation_id \in ConversationIds(docsBefore) =>
          LET added == Added(docsBefore, req.conversation_id)
          IN  state.messages =
                 [i \in 1..Len(added) |->
                     [role |-> Lower(added[i].metadata.role),
                      content |-> added[i].document]]
                 \o <<[role |-> "user", content |-> req.message]>>

\* C13: GET /conversation/{id} answers 404 only for an id that is no
\* conversation's; a store that raises while the history of an existing
\* conversation is loaded is not answered with 404.
C13_NotFoundOnlyIfAbsent ==
    history.status = 404 =>
       history.conversation_id \notin ConversationIds(conversations)

\* The min(limit, N) most recently published of the N documents, most recent
\* first.
MostRecent(coll, limit) ==
    LET all == [i \in 1..Len(coll) |->
                  [id |-> coll[i].id,
                   url |-> coll[i].metadata.url,
                   publishedAt |-> coll[i].metadata.published_at]]
        sorted == SortByPublishedAtDesc(all)
    IN  SubSeq(sorted, 1, Min(limit, Len(coll)))

\* C14: GET /news?limit= answers with the min(limit, N) most recently
\* published of the N stored articles, most recent first.
C14_MostRecentReturned ==
    recent.status = 200 => recent.articles = MostRecent(news, recent.limit)

\* C15: once cleanup_old_articles has returned 'success', the store holds no
\* article published before the cutoff date, and deleted_count is the number
\* of articles the task removed.
C15_OldArticlesRemoved ==
    cleaned.status = "success" =>
       /\ \A i \in 1..Len(news) :
             news[i].metadata.published_at.day >= cleaned.cutoff_date
       /\ cleaned.deleted_count = cleaned.stored_before - Len(news)

\* C16: for the same query, limit and threshold the synchronous search
\* selects the articles the asynchronous one selects: those whose similarity
\* is at least the threshold.
C16_SyncSelectsAsAsync ==
    found.asked =>
       /\ found.sync = found.async
       /\ \A i \in 1..Len(found.similarities) :
             found.similarities[i].id \in Range(found.sync) =>
                found.similarities[i].similarity >= found.threshold

\* C17: no two stored articles have the same URL.
C17_NoDuplicateUrls ==
    \A i, j \in 1..Len(news) :
       news[i].metadata.url = news[j].metadata.url => i = j

====
